---- MODULE Spec2Model ----
(***************************************************************************)
(* gr-analyzer: the configuration object (src/configuration.py) that       *)
(* derives the retune plan and the bin indices from the scan parameters.   *)
(*                                                                         *)
(* Numbers.  The Python code works on floats (true division is in force,   *)
(* "from __future__ import division").  Here every frequency is an exact   *)
(* rational, held as an integer count of 1/Scale Hz.  Scale is chosen so   *)
(* that every division the code performs on the modelled inputs            *)
(* (sample_rate / fft_size, x / 2) is exact; the only lossy conversions    *)
(* are the ones the code asks for: round(), int() and math.floor().        *)
(* overlap is held as the integer percentage p the command line accepts;   *)
(* the code's self.overlap is p / 100.0.                                   *)
(***************************************************************************)
EXTENDS Integers, Sequences, FiniteSets, TLC

\* ------------------------------------------------------------------ bounds
\* fft sizes 32*1 .. 32*MaxFftMult are offered to the model
MaxFftMult == 2

\* ------------------------------------------------------- program constants
\* cli_parser.fft_size: "assert(not value % 32)"
FftMultiple == 32
\* cli_parser.percent: "assert(0 <= value < 100)"
PercentLimit == 100

\* ------------------------------------------------------------- arithmetic
RECURSIVE Gcd(_, _)
Gcd(a, b) == IF b = 0 THEN a ELSE Gcd(b, a % b)

RECURSIVE LcmUpTo(_)
LcmUpTo(n) == IF n <= 1 THEN 1 ELSE (LcmUpTo(n - 1) * n) \div Gcd(LcmUpTo(n - 1), n)

\* number of model units in one Hz
Scale == 2 * FftMultiple * LcmUpTo(MaxFftMult)

Hz(n) == n * Scale

Abs(x) == IF x < 0 THEN -x ELSE x

\* ceil(num / den), den > 0
CeilDiv(num, den) == -((-num) \div den)

\* Python 2 round(num / den) for num >= 0, den > 0: half away from zero
PyRound(num, den) == (2 * num + den) \div (2 * den)

\* Python int(x) of a frequency x: truncation toward zero to whole Hz
PyInt(x) == IF x >= 0 THEN (x \div Scale) * Scale ELSE -(((-x) \div Scale) * Scale)

\* numpy.arange(start, stop, step), step > 0
arange(start, stop, step) ==
    LET n == IF stop > start THEN CeilDiv(stop - start, step) ELSE 0
    IN  [i \in 1..n |-> start + (i - 1) * step]

\* Optional value: <<>> is None, <<v>> is the value v
None == <<>>
Some(v) == <<v>>

\* ------------------------------------------------------------ input ranges
SampleRates == {Hz(80)}
CenterFreqs == {Hz(1000)}
Spans == {None, Some(Hz(0)), Some(Hz(-20)), Some(Hz(80))}
Overlaps == {0, 5, 50, 90, 97, 99}
\* what cli_parser.fft_size lets through: any multiple of 32, zero included
CliFftSizes == {FftMultiple * k : k \in 0..MaxFftMult}
\* sizes a caller may hand to set_fft_size
SizeInputs == CliFftSizes \cup {48}

\* consts.FFT_SIZES: 2^n between 32 and 8192
FFT_SIZES == {32, 64, 128, 256, 512, 1024, 2048, 4096, 8192}

\* keys of configuration.windows ('Kaiser' is commented out there)
windows == {"Bartlett", "Blackman", "Blackman2", "Blackman3", "Blackman4",
            "Blackman-Harris", "Blackman-Nuttall", "Flattop", "Hamming",
            "Hann", "Hanning", "Nuttall", "Nuttall CFD", "Parzen",
            "Rectangular", "Riemann", "Welch"}

\* self.windows[name](fft_size): the coefficient table of gnuradio, which is
\* a function of the window name and of the size it was built for
window_table(name, size) == <<name, size>>

VARIABLES
    cfg,        \* the configuration object
    raised,     \* exception the last update() ended with, "none" if it returned
    last_call,  \* the operation that ran last
    last_arg,   \* the size handed to set_fft_size when it ran last, else None
    gui         \* the plot state of the main frame (wxpygui_frame)

vars == <<cfg, raised, last_call, last_arg, gui>>

\* --------------------------------------------------- outcome of a step
Ok(c) == [cfg |-> c, exc |-> "none"]
Raise(c, e) == [cfg |-> c, exc |-> e]
\* run the next statement unless an exception is already propagating
Then(r, F(_)) == IF r.exc = "none" THEN F(r.cfg) ELSE r

\* ------------------------------------------------- configuration methods
\* the bin width as Python 2 computes it without true division
update_deltaf_floordiv(c) ==
    IF c.fft_size = 0
    THEN Raise(c, "ZeroDivisionError")
    ELSE Ok([c EXCEPT !.deltaf = PyInt(c.sample_rate \div c.fft_size)])

update_deltaf(c) ==
    IF c.fft_size = 0
    THEN Raise(c, "ZeroDivisionError")
    ELSE Ok([c EXCEPT !.deltaf = c.sample_rate \div c.fft_size])

\* ratio_valid_bins = 1.0 - overlap;
\* int(round((samp_rate * ratio_valid_bins) / deltaf) * deltaf)
adjust_rate(samp_rate, deltaf, overlap) ==
    PyInt(PyRound(samp_rate * (PercentLimit - overlap), PercentLimit * deltaf) * deltaf)

update_freq_step(c) ==
    IF c.deltaf = 0
    THEN Raise(c, "ZeroDivisionError")
    ELSE Ok([c EXCEPT !.freq_step = adjust_rate(c.sample_rate, c.deltaf, c.overlap)])

\* the default span taken from the plan held so far: n_segments is written
\* by a later step
update_span_of_held_plan(c) ==
    IF c.requested_span # None /\ c.requested_span[1] # 0
    THEN Ok([c EXCEPT !.span = c.requested_span[1]])
    ELSE Ok([c EXCEPT !.span = c.freq_step * c.n_segments])

\* "if self.requested_span:" is false for None and for 0
update_span(c) ==
    IF c.requested_span # None /\ c.requested_span[1] # 0
    THEN Ok([c EXCEPT !.span = c.requested_span[1]])
    ELSE Ok([c EXCEPT !.span = c.freq_step])

update_min_max_freq(c) ==
    LET lo == c.center_freq - (c.span \div 2) + (c.deltaf \div 2)
    IN  Ok([c EXCEPT !.min_freq = lo, !.max_freq = lo + c.span - c.deltaf])

\* the first center a whole step above min_freq
min_fc_whole_step(c) == c.min_freq + c.freq_step

min_fc(c) == c.min_freq + (c.freq_step \div 2)

\* math.ceil in place of math.floor
initial_n_segments_ceil(c) == CeilDiv(c.span, c.freq_step)

initial_n_segments(c) == c.span \div c.freq_step

max_fc(c) == min_fc(c) + (initial_n_segments(c) * c.freq_step)

\* np.arange stopping at max_fc, its end point left out
tuned_freqs_open_end(c) ==
    IF c.span <= c.freq_step
    THEN <<min_fc(c)>>
    ELSE arange(min_fc(c), max_fc(c), c.freq_step)

\* "<" in place of "<=" in the test for a single segment
tuned_freqs_strict(c) ==
    IF c.span < c.freq_step
    THEN <<min_fc(c)>>
    ELSE arange(min_fc(c), max_fc(c) + Hz(1), c.freq_step)

tuned_freqs(c) ==
    IF c.span <= c.freq_step
    THEN <<min_fc(c)>>
    ELSE arange(min_fc(c), max_fc(c) + Hz(1), c.freq_step)

update_tuned_freq_cache(c) ==
    IF c.span > c.freq_step /\ c.freq_step = 0
    THEN Raise(c, "ZeroDivisionError")
    ELSE Ok([c EXCEPT !.center_freqs = tuned_freqs(c),
                      !.n_segments = Len(tuned_freqs(c))])

update_bin_freq_cache(c) ==
    LET last_fc == c.center_freqs[Len(c.center_freqs)]
        max_bin_freq == last_fc + (c.freq_step \div 2)
    IN  Ok([c EXCEPT !.bin_freqs = arange(c.min_freq, max_bin_freq, c.deltaf)])

\* numpy argmin of |array - value| over array[lo..hi], lo <= hi: the index of
\* the smallest distance, the lowest such index on a tie (the range is halved
\* to keep the recursion shallow)
RECURSIVE argmin_abs(_, _, _, _)
argmin_abs(array, value, lo, hi) ==
    IF lo = hi THEN lo
    ELSE LET mid == (lo + hi) \div 2
             a == argmin_abs(array, value, lo, mid)
             b == argmin_abs(array, value, mid + 1, hi)
         IN  IF Abs(array[b] - value) < Abs(array[a] - value) THEN b ELSE a

\* utils.find_nearest: (np.abs(array - value)).argmin(), a 0-based index;
\* array is not empty
find_nearest(array, value) == argmin_abs(array, value, 1, Len(array)) - 1

\* the margin rounded up to a whole bin
bin_start_of_ceil(c) == CeilDiv(c.fft_size * c.overlap, 2 * PercentLimit)

\* the whole overlap, not half of it, cut from each side
bin_start_of_whole_overlap(c) == (c.fft_size * c.overlap) \div PercentLimit

\* int(self.fft_size * (self.overlap / 2))
bin_start_of(c) == (c.fft_size * c.overlap) \div (2 * PercentLimit)

\* one past the slice end
max_plotted_bin_of_plus_two(c) == find_nearest(c.bin_freqs, c.max_freq) + 2

\* utils.find_nearest(self.bin_freqs, self.max_freq) + 1
max_plotted_bin_of(c) == find_nearest(c.bin_freqs, c.max_freq) + 1

\* the index of the last kept bin, not one past it
bin_stop_of_last_kept(c) == c.fft_size - c.bin_start - 1

\* int(self.fft_size - self.bin_start), read after bin_start was assigned
bin_stop_of(c) == c.fft_size - c.bin_start

update_bin_indices(c) ==
    LET c1 == [c EXCEPT !.bin_start = bin_start_of(c)]
        c2 == [c1 EXCEPT !.bin_stop = bin_stop_of(c1)]
    IN  IF Len(c.bin_freqs) = 0
        THEN Raise(c2, "ValueError")
        ELSE Ok([c2 EXCEPT
                   !.max_plotted_bin = max_plotted_bin_of(c),
                   !.bin_offset = (c2.bin_stop - c2.bin_start) \div 2])

update(c) ==
    Then(Then(Then(Then(Then(Then(update_deltaf(c),
        update_freq_step), update_span), update_min_max_freq),
        update_tuned_freq_cache), update_bin_freq_cache), update_bin_indices)

\* set_fft_size without the test of consts.FFT_SIZES
set_fft_size_unchecked(c, size) ==
    [c EXCEPT !.fft_size = size]

set_fft_size(c, size) ==
    IF size \in FFT_SIZES THEN [c EXCEPT !.fft_size = size] ELSE c

set_window(c, fn_name) ==
    LET c1 == IF fn_name \in windows THEN [c EXCEPT !.window = fn_name] ELSE c
    IN  [c1 EXCEPT !.window_coefficients = window_table(c1.window, c1.fft_size)]

\* configuration.__init__ up to the call of update(): the command line
\* values, and None (held as 0 and <<>>) in every field update() sets
args_namespace(center_freq, span, sample_rate, fft_size, overlap) ==
    [center_freq |-> center_freq, requested_span |-> span,
     sample_rate |-> sample_rate, fft_size |-> fft_size, overlap |-> overlap,
     span |-> 0, deltaf |-> 0, freq_step |-> 0, min_freq |-> 0, max_freq |-> 0,
     center_freqs |-> <<>>, n_segments |-> 0, bin_freqs |-> <<>>,
     bin_start |-> 0, bin_stop |-> 0, bin_offset |-> 0, max_plotted_bin |-> 0,
     window |-> "", window_coefficients |-> <<>>]

\* the rest of __init__: update(), then set_window('Blackman-Harris')
configuration_init(a) ==
    Then(update(a), LAMBDA c : Ok(set_window(c, "Blackman-Harris")))

\* --------------------------------------------------- the plot of the GUI
\* A frame of data y is held as its length; powers are not modelled.

\* what one call of update_plot did, before any call
no_frame ==
    [ylen |-> 0, redraw_plot |-> FALSE, configured |-> "none",
     canvas_draws |-> 0, drawn |-> {}, blit |-> FALSE, exc |-> "none"]

\* wxpygui_frame.__init__: no axes, no line, no background, markers not
\* plotted, self.x = None
frame_init ==
    [x |-> None, axis |-> None, plot_background |-> None, line |-> None,
     markers |-> {}, redraw_plot |-> FALSE, last_frame |-> no_frame]

\* self.tb.cfg.bin_freqs[:maxbin]
plot_x(c) ==
    SubSeq(c.bin_freqs, 1,
           IF c.max_plotted_bin < Len(c.bin_freqs)
           THEN c.max_plotted_bin ELSE Len(c.bin_freqs))

\* format_axis: the x ticks run from cf - span/2 to cf + span/2 (held
\* doubled, to stay whole); the canvas is drawn and the background is copied
format_axis(g, c) ==
    LET ticks == <<2 * c.center_freq - c.span, 2 * c.center_freq + c.span>>
    IN  [g EXCEPT !.axis = Some(ticks),
                  !.plot_background = Some(ticks),
                  !.last_frame.canvas_draws = @ + 1]

\* configure_mpl_plot with the length test moved after the removal of the
\* old line and markers
configure_mpl_plot_check_late(g, c, ylen, adjust_freq_range) ==
    LET g1 == [g EXCEPT !.x = plot_x(c)]
    IN  IF adjust_freq_range /\ Len(g1.x) # ylen
        THEN [g1 EXCEPT !.markers = {}, !.line = None,
                        !.last_frame.configured = "dropped"]
        ELSE LET g2 == IF adjust_freq_range
                       THEN [g1 EXCEPT !.markers = {},
                                       !.line = Some([xdata |-> g1.x, ylen |-> ylen])]
                       ELSE g1
             IN  [g2 EXCEPT !.plot_background = g2.axis,
                            !.last_frame.canvas_draws = @ + 1,
                            !.last_frame.configured = "done"]

\* configure_mpl_plot: "dropped" stands for the return value False, "done"
\* for True
configure_mpl_plot(g, c, ylen, adjust_freq_range) ==
    LET g1 == [g EXCEPT !.x = plot_x(c)]
    IN  IF adjust_freq_range /\ Len(g1.x) # ylen
        THEN [g1 EXCEPT !.last_frame.configured = "dropped"]
        ELSE LET g2 == IF adjust_freq_range
                       THEN [g1 EXCEPT !.markers = {},
                                       !.line = Some([xdata |-> g1.x, ylen |-> ylen])]
                       ELSE g1
             IN  [g2 EXCEPT !.plot_background = g2.axis,
                            !.last_frame.canvas_draws = @ + 1,
                            !.last_frame.configured = "done"]

\* update_plot after the reconfiguration: restore the background, draw the
\* line and the plotted markers, blit.  Without a background or a line the
\* call ends in an exception.
draw_frame(g, ylen, keep_alive) ==
    IF g.plot_background = None \/ g.line = None
    THEN [g EXCEPT !.last_frame.exc = "AttributeError"]
    ELSE LET g1 == IF keep_alive THEN g
                   ELSE [g EXCEPT !.line = Some([g.line[1] EXCEPT !.ylen = ylen])]
         IN  [g1 EXCEPT !.last_frame.drawn = {<<"line", 0>>} \cup {<<"mkr", m>> : m \in g.markers},
                        !.last_frame.blit = TRUE]

update_plot(g, c, ylen, redraw_plot, keep_alive) ==
    LET g0 == [g EXCEPT !.last_frame =
                   [no_frame EXCEPT !.ylen = ylen, !.redraw_plot = redraw_plot]]
    IN  IF redraw_plot
        THEN LET g1 == configure_mpl_plot(format_axis(g0, c), c, ylen, TRUE)
             IN  IF g1.last_frame.configured = "dropped"
                 THEN [g1 EXCEPT !.redraw_plot = TRUE]
                 ELSE draw_frame(g1, ylen, keep_alive)
        ELSE draw_frame(g0, ylen, keep_alive)

\* ----------------------------------------------------------- state machine
\* An exception in __init__ leaves no object: the states after construction
\* are those of the argument sets update() accepts.
Init ==
    \E cf \in CenterFreqs, sp \in Spans, sr \in SampleRates,
       n \in CliFftSizes, p \in Overlaps :
        LET r == configuration_init(args_namespace(cf, sp, sr, n, p))
        IN  /\ r.exc = "none"
            /\ cfg = r.cfg
            /\ raised = "none"
            /\ last_call = "__init__"
            /\ last_arg = None
            /\ gui = frame_init

Update ==
    LET r == update(cfg)
    IN  /\ cfg' = r.cfg
        /\ raised' = r.exc
        /\ last_call' = "update"
        /\ last_arg' = None
        /\ UNCHANGED gui

SetFftSize ==
    \E size \in SizeInputs :
        /\ cfg' = set_fft_size(cfg, size)
        /\ last_call' = "set_fft_size"
        /\ last_arg' = Some(size)
        /\ UNCHANGED <<raised, gui>>

\* in-flight edits of the scan parameters by the controls of the GUI, which
\* assign the attributes of the configuration object
EditSpan ==
    \E sp \in Spans :
        /\ cfg' = [cfg EXCEPT !.requested_span = sp]
        /\ last_call' = "edit"
        /\ last_arg' = None
        /\ UNCHANGED <<raised, gui>>

EditOverlap ==
    \E p \in Overlaps :
        /\ cfg' = [cfg EXCEPT !.overlap = p]
        /\ last_call' = "edit"
        /\ last_arg' = None
        /\ UNCHANGED <<raised, gui>>

Next ==
    \/ Update
    \/ SetFftSize
    \/ EditSpan
    \/ EditOverlap

Spec == Init /\ [][Next]_vars

\* window names a caller hands to set_window: one of the table, one not
WindowInputs == {"Hann", "Kaiser"}

SetWindow ==
    \E fn_name \in WindowInputs :
        /\ cfg' = set_window(cfg, fn_name)
        /\ last_call' = "set_window"
        /\ last_arg' = None
        /\ UNCHANGED <<raised, gui>>

\* the setters of the configuration object and update()
NextFrame ==
    \/ Update
    \/ SetFftSize
    \/ SetWindow

SpecFrame == Init /\ [][NextFrame]_vars

\* the plottable markers mkr1 and mkr2
Markers == {1, 2}

\* lengths of the frames the detector delivers: for the plan in force, or
\* still for the plan the plot holds
frame_lengths(g, c) ==
    {Len(plot_x(c)), Len(g.x)} \cup
    (IF g.line = None THEN {} ELSE {g.line[1].ylen})

\* one frame handed to update_plot.  The plot interface passes
\* redraw_plot = True when its redraw_plot event is set, and clears the event.
UpdatePlot ==
    \E ylen \in frame_lengths(gui, cfg), redraw_plot \in BOOLEAN,
       keep_alive \in BOOLEAN :
        /\ gui.redraw_plot => redraw_plot
        /\ gui' = update_plot([gui EXCEPT !.redraw_plot = FALSE], cfg, ylen,
                              redraw_plot, keep_alive)
        /\ last_call' = "update_plot"
        /\ last_arg' = None
        /\ UNCHANGED <<cfg, raised>>

\* the user places a marker on the plotted line
PlotMarker ==
    \E m \in Markers :
        /\ gui.line # None
        /\ gui' = [gui EXCEPT !.markers = @ \cup {m}]
        /\ last_call' = "plot_marker"
        /\ last_arg' = None
        /\ UNCHANGED <<cfg, raised>>

\* the plan changes under a running plot
NextPlot ==
    \/ EditSpan
    \/ Update
    \/ UpdatePlot
    \/ PlotMarker

SpecPlot == Init /\ [][NextPlot]_vars

\* ------------------------------------------------------------- properties
\* the fields update() sets
Derived(c) ==
    <<c.deltaf, c.freq_step, c.span, c.min_freq, c.max_freq, c.center_freqs,
      c.n_segments, c.bin_freqs, c.bin_start, c.bin_stop, c.bin_offset,
      c.max_plotted_bin>>

\* sample_rate > 0, fft_size a positive multiple of 32, 0 <= overlap < 1,
\* requested span null or positive
ValidParams(c) ==
    /\ c.sample_rate > 0
    /\ c.fft_size > 0 /\ c.fft_size % FftMultiple = 0
    /\ c.overlap >= 0 /\ c.overlap < PercentLimit
    /\ (c.requested_span = None \/ c.requested_span[1] > 0)

\* the plan was just computed from the current parameters: construction or
\* update() returned, and nothing was changed since
Planned == last_call \in {"__init__", "update"} /\ raised = "none"

\* round(fft_size * (1 - overlap)): usable bins of one segment
usable_bins(c) == PyRound(c.fft_size * (PercentLimit - c.overlap), PercentLimit)

\* C1: an update() that fails leaves every derived field as it was before the
\* call (all-or-nothing recomputation).
C1_AllOrNothing ==
    [][(last_call' = "update" /\ raised' # "none")
        => Derived(cfg') = Derived(cfg)]_vars

\* C2 (as stated): right after set_fft_size returns, deltaf is
\* sample_rate / fft_size and bin_start is floor(fft_size * overlap / 2).
C2_PlanFreshAfterSetFftSize ==
    last_call = "set_fft_size"
        => /\ cfg.deltaf * cfg.fft_size = cfg.sample_rate
           /\ cfg.bin_start = (cfg.fft_size * cfg.overlap) \div (2 * PercentLimit)

\* C2 (amended): the two equalities hold in the state a completed update()
\* leaves; set_fft_size changes no derived field, so the plan stays that of
\* the last update() until update() is called again.
C2_PlanFreshAfterUpdate ==
    [][/\ (last_call' = "update" /\ raised' = "none")
            => /\ cfg'.deltaf * cfg'.fft_size = cfg'.sample_rate
               /\ cfg'.bin_start =
                    (cfg'.fft_size * cfg'.overlap) \div (2 * PercentLimit)
       /\ last_call' = "set_fft_size" => Derived(cfg') = Derived(cfg)]_vars

\* a state set_fft_size left with the bin width of the previous fft size
C2_Witness ==
    /\ last_call = "set_fft_size"
    /\ cfg.deltaf * cfg.fft_size # cfg.sample_rate

\* C3 (as stated): after update() on valid parameters max_plotted_bin is
\* strictly less than len(bin_freqs).
C3_MaxPlottedBinBelowLen ==
    (Planned /\ ValidParams(cfg)) => cfg.max_plotted_bin < Len(cfg.bin_freqs)

\* C3 (amended): after update() on valid parameters max_plotted_bin is at
\* least 1 and at most len(bin_freqs); it equals len(bin_freqs) when no span
\* is requested and freq_step is a whole number of bins.
C3_MaxPlottedBinAtMostLen ==
    (Planned /\ ValidParams(cfg)) =>
        /\ 1 <= cfg.max_plotted_bin
        /\ cfg.max_plotted_bin <= Len(cfg.bin_freqs)
        /\ (cfg.requested_span = None /\ cfg.freq_step % cfg.deltaf = 0)
              => cfg.max_plotted_bin = Len(cfg.bin_freqs)

\* no span requested, one segment, the slice end is the length of bin_freqs
C3_Witness ==
    /\ Planned /\ ValidParams(cfg)
    /\ cfg.requested_span = None
    /\ cfg.n_segments = 1
    /\ cfg.max_plotted_bin = Len(cfg.bin_freqs)

\* C4: freq_step is round(sample_rate * (1 - overlap) / deltaf) * deltaf, a
\* whole multiple of the bin width, also when deltaf is not a whole number
\* of Hz.
C4_FreqStepMultipleOfDeltaf ==
    (Planned /\ ValidParams(cfg)) =>
        /\ cfg.freq_step =
             PyRound(cfg.sample_rate * (PercentLimit - cfg.overlap),
                     PercentLimit * cfg.deltaf) * cfg.deltaf
        /\ cfg.freq_step % cfg.deltaf = 0

\* C5: with freq_step > 0 the windows [c - freq_step/2, c + freq_step/2] of
\* the planned centers cover [min_freq, max_freq]: the first starts at or
\* below min_freq, each one ends where the next starts, the last ends at or
\* above max_freq.
C5_WindowsCoverSpan ==
    (Planned /\ ValidParams(cfg) /\ cfg.freq_step > 0) =>
        LET cs == cfg.center_freqs
            half == cfg.freq_step \div 2
        IN  /\ Len(cs) >= 1
            /\ cs[1] - half <= cfg.min_freq
            /\ \A i \in 1..(Len(cs) - 1) : cs[i] + half = cs[i + 1] - half
            /\ cs[Len(cs)] + half >= cfg.max_freq

\* a plan of several segments whose span is a whole multiple of freq_step
C5_Witness ==
    /\ Planned /\ ValidParams(cfg)
    /\ cfg.freq_step > 0
    /\ cfg.n_segments >= 2
    /\ cfg.span % cfg.freq_step = 0

\* C6: center_freqs is not empty, strictly increasing, starts at
\* min_freq + freq_step/2 and steps by exactly freq_step.
C6_CentersEvenlySpaced ==
    (Planned /\ ValidParams(cfg)) =>
        LET cs == cfg.center_freqs
        IN  /\ Len(cs) >= 1
            /\ 2 * cs[1] = 2 * cfg.min_freq + cfg.freq_step
            /\ \A i \in 1..(Len(cs) - 1) :
                  /\ cs[i] < cs[i + 1]
                  /\ cs[i + 1] - cs[i] = cfg.freq_step

\* a plan of at least three segments
C6_Witness ==
    /\ Planned /\ ValidParams(cfg)
    /\ Len(cfg.center_freqs) >= 3

segments_needed(c) ==
    IF c.max_freq <= c.min_freq THEN 0
    ELSE CeilDiv(c.max_freq - c.min_freq, c.freq_step)

\* C8 (as stated): with span > freq_step, n_segments is
\* floor(span / freq_step) + 1, never fewer than the segments needed to reach
\* max_freq and never more than one above that number.
C8_AtMostOneExtraSegment ==
    (Planned /\ ValidParams(cfg) /\ cfg.span > cfg.freq_step) =>
        /\ cfg.n_segments = (cfg.span \div cfg.freq_step) + 1
        /\ cfg.n_segments >= segments_needed(cfg)
        /\ cfg.n_segments <= segments_needed(cfg) + 1

\* C8 (amended): with span > freq_step, n_segments is
\* floor(span / freq_step) + 1, never fewer than the segments needed and at
\* most two above that number; at most one above it whenever freq_step is
\* wider than one bin.
C8_AtMostTwoExtraSegments ==
    (Planned /\ ValidParams(cfg) /\ cfg.span > cfg.freq_step) =>
        /\ cfg.n_segments = (cfg.span \div cfg.freq_step) + 1
        /\ cfg.n_segments >= segments_needed(cfg)
        /\ cfg.n_segments <= segments_needed(cfg) + 2
        /\ cfg.freq_step > cfg.deltaf
              => cfg.n_segments <= segments_needed(cfg) + 1

\* one usable bin per segment: two segments more than needed are planned
C8_Witness ==
    /\ Planned /\ ValidParams(cfg)
    /\ cfg.span > cfg.freq_step
    /\ cfg.freq_step <= cfg.deltaf
    /\ cfg.n_segments = segments_needed(cfg) + 2

\* C9: len(bin_freqs) differs by at most 1 from n_segments times the usable
\* bins of one segment, round(fft_size * (1 - overlap)).
C9_BinCountMatchesSegments ==
    (Planned /\ ValidParams(cfg)) =>
        Abs(Len(cfg.bin_freqs) - cfg.n_segments * usable_bins(cfg)) <= 1

\* C10 (as stated): bin_stop - bin_start is fft_size * (1 - overlap) rounded
\* down.
C10_KeptSizeRoundedDown ==
    (Planned /\ ValidParams(cfg)) =>
        cfg.bin_stop - cfg.bin_start =
            (cfg.fft_size * (PercentLimit - cfg.overlap)) \div PercentLimit

\* C10 (amended): bin_stop - bin_start is
\* fft_size - 2 * floor(fft_size * overlap / 2); it is never below
\* fft_size * (1 - overlap) rounded down, exceeds it by at most 2, and equals
\* it when fft_size * overlap / 2 is a whole number.
C10_KeptSizeSymmetricCrop ==
    (Planned /\ ValidParams(cfg)) =>
        LET size == cfg.bin_stop - cfg.bin_start
            down == (cfg.fft_size * (PercentLimit - cfg.overlap)) \div PercentLimit
            half == cfg.fft_size * cfg.overlap
        IN  /\ size = cfg.fft_size - 2 * (half \div (2 * PercentLimit))
            /\ down <= size
            /\ size <= down + 2
            /\ half % (2 * PercentLimit) = 0 => size = down

\* the kept range is larger than fft_size * (1 - overlap) rounded down
C10_Witness ==
    /\ Planned /\ ValidParams(cfg)
    /\ cfg.bin_stop - cfg.bin_start >
         (cfg.fft_size * (PercentLimit - cfg.overlap)) \div PercentLimit

\* C11 (as stated): whenever overlap > 0 the kept range [bin_start, bin_stop)
\* holds neither index 0 nor index fft_size - 1.
C11_EdgeBinsDropped ==
    (Planned /\ ValidParams(cfg) /\ cfg.overlap > 0) =>
        /\ cfg.bin_start >= 1
        /\ cfg.bin_stop <= cfg.fft_size - 1

\* C11 (amended): the kept range holds neither index 0 nor index
\* fft_size - 1 exactly when fft_size * overlap / 2 >= 1; for a smaller
\* overlap, zero or not, the whole capture is kept.
C11_EdgeBinsDroppedFromOneBin ==
    (Planned /\ ValidParams(cfg)) =>
        IF cfg.fft_size * cfg.overlap >= 2 * PercentLimit
        THEN cfg.bin_start >= 1 /\ cfg.bin_stop <= cfg.fft_size - 1
        ELSE cfg.bin_start = 0 /\ cfg.bin_stop = cfg.fft_size

\* a positive overlap of less than one bin per side: nothing is cut
C11_Witness ==
    /\ Planned /\ ValidParams(cfg)
    /\ cfg.overlap > 0
    /\ cfg.bin_start = 0
    /\ cfg.bin_stop = cfg.fft_size

C13_ZeroStepRejected ==
    (last_call = "update" /\ cfg.freq_step <= 0)
        => raised = "InvalidConfiguration"

\* C14: a recomputation whose requested span is zero or negative is rejected
\* with an InvalidConfiguration error; the span is neither taken as absent
\* nor used for the plan.
C14_NonPositiveSpanRejected ==
    (/\ last_call \in {"__init__", "update"}
     /\ cfg.requested_span # None
     /\ cfg.requested_span[1] <= 0)
        => raised = "InvalidConfiguration"

\* C18: the bins kept from one capture, bin_stop - bin_start, are as many as
\* the bins one segment has in bin_freqs, freq_step / deltaf.
C18_KeptBinsFillSegment ==
    (Planned /\ ValidParams(cfg)) =>
        (cfg.bin_stop - cfg.bin_start) * cfg.deltaf = cfg.freq_step

\* C16: update() is idempotent: a second update() on unchanged parameters
\* leaves every derived field, and the outcome, as the first one left them,
\* whatever plan was held before; the plan a completed update() leaves is the
\* one computed from the parameters alone, so no step reads a field that a
\* later step writes.
C16_UpdateIdempotent ==
    last_call = "update" =>
        /\ Derived(update(cfg).cfg) = Derived(cfg)
        /\ update(cfg).exc = raised
        /\ raised = "none" =>
              Derived(cfg) =
                Derived(update(args_namespace(cfg.center_freq,
                    cfg.requested_span, cfg.sample_rate, cfg.fft_size,
                    cfg.overlap)).cfg)

\* update() returned a plan of several segments
C16_Witness ==
    /\ last_call = "update"
    /\ raised = "none"
    /\ cfg.n_segments >= 2

\* C15: set_fft_size(size) with a size outside consts.FFT_SIZES changes no
\* field of the configuration (parameters, plan, window and
\* window_coefficients); with a supported size only fft_size changes, to that
\* size.  Nothing else of the state moves either.
C15_SetFftSizeFrame ==
    [][last_call' = "set_fft_size" =>
          /\ IF last_arg'[1] \in FFT_SIZES
             THEN cfg' = [cfg EXCEPT !.fft_size = last_arg'[1]]
             ELSE cfg' = cfg
          /\ raised' = raised
          /\ gui' = gui]_vars

\* an unsupported size was handed to set_fft_size after the window was changed
C15_Witness ==
    /\ last_call = "set_fft_size"
    /\ last_arg[1] \notin FFT_SIZES
    /\ cfg.window = "Hann"
    /\ cfg.window_coefficients = window_table("Hann", cfg.fft_size)

\* a step of update_plot called with redraw_plot true
redraw_step == last_call' = "update_plot" /\ gui'.last_frame.redraw_plot

\* the frame of that step does not fit the x axis of the plan in force
mismatch_step == gui'.last_frame.ylen # Len(plot_x(cfg'))

\* the mismatched frame is dropped: False returned, line and markers as
\* they were, no artist drawn, no blit, the redraw_plot event set
dropped_step ==
    /\ gui'.last_frame.configured = "dropped"
    /\ gui'.last_frame.exc = "none"
    /\ gui'.line = gui.line
    /\ gui'.markers = gui.markers
    /\ gui'.last_frame.drawn = {}
    /\ ~gui'.last_frame.blit
    /\ gui'.redraw_plot

\* the matching frame reconfigures the plot: a line over the x axis in
\* force, as long as the frame
reconfigured_step ==
    /\ gui'.last_frame.configured = "done"
    /\ gui'.line = Some([xdata |-> plot_x(cfg'), ylen |-> gui'.last_frame.ylen])
    /\ Len(gui'.line[1].xdata) = gui'.line[1].ylen
    /\ ~gui'.redraw_plot

\* a set redraw_plot event reaches the next frame as redraw_plot = True
retried_step ==
    (gui.redraw_plot /\ last_call' = "update_plot") => gui'.last_frame.redraw_plot

====
